---- MODULE Spec2Model ----
(***************************************************************************)
(* Model of skll/utilities/generate_predictions.py: the Predictor wrapper  *)
(* (Predictor.__init__, Predictor.predict) and the command-line entry      *)
(* point main().                                                           *)
(*                                                                         *)
(* Two specifications share the variables:                                 *)
(*   Spec         a run of main(argv)                                      *)
(*   PredictSpec  one call of Predictor.predict on a constructed Predictor *)
(***************************************************************************)
EXTENDS Integers, Sequences, FiniteSets, TLC

VARIABLES
    pc,           \* position of the run
    argv,         \* the command line handed to main
    args,         \* the argparse Namespace (line 130)
    predictor,    \* the Predictor object (self._learner, self._pos_index, self.threshold)
    idx,          \* position of the for loop of line 144 in args.input_file
    stdout,       \* lines printed, in order
    log,          \* records handed to logger.error, in order
    exc,          \* the exception that ended the run, "none" while it runs
    loadCalls,    \* number of calls of Learner.from_file
    filesRead,    \* paths a reader was instantiated on and read, in order
    splitextArg,  \* the argument of the os.path.splitext call of line 147, per iteration
    data,         \* the FeatureSet handed to Predictor.predict
    hasherArg,    \* the feature_hasher flag passed to Learner.predict (line 68)
    result        \* what Predictor.predict returned

vars == <<pc, argv, args, predictor, idx, stdout, log, exc, loadCalls,
          filesRead, splitextArg, data, hasherArg, result>>

----------------------------------------------------------------------------
(* Bounds of the model. *)

\* largest number of examples in a FeatureSet
MaxExamples == 2
\* number of classes of the model (length of label_list, of a probability vector)
NumClasses == 2
\* floats are fixed-point: a float's val counts units of 1/Scale
Scale == 2
\* largest number of input_file arguments on the command line
MaxFiles == 2
\* largest number of optional arguments on the command line
MaxOpts == 2

----------------------------------------------------------------------------
(* Python values.  Every value is a record of the same shape so that any   *)
(* two can be compared; type is the Python type.                           *)

PyNone == [type |-> "NoneType", val |-> 0, items |-> <<>>]
PyInt(n) == [type |-> "int", val |-> n, items |-> <<>>]
\* a float holding v/Scale
PyFloat(v) == [type |-> "float", val |-> v, items |-> <<>>]
\* the k-th class label (labels are sorted, k counts from 0)
PyLabel(k) == [type |-> "str", val |-> k, items |-> <<>>]
PyList(s) == [type |-> "list", val |-> 0, items |-> s]

\* int(x) of a bool: True -> 1, False -> 0
IntOfBool(b) == PyInt(IF b THEN 1 ELSE 0)

\* int(x) of a number: an int is itself, a float is truncated
IntOfNumber(x) == IF x.type = "float" THEN PyInt(x.val \div Scale) ELSE PyInt(x.val)

\* seq[k] with Python's 0-based index
GetItem(s, k) == s[k + 1]

----------------------------------------------------------------------------
(* The loaded model (skll.learner.Learner) as Predictor sees it: its       *)
(* capability attributes and, per example, the raw prediction it yields.   *)

\* model classes that derive from sklearn's RegressorMixin, and ones that do not
RegressorMixin == {"LinearRegression"}
ModelTypes == {"LinearRegression", "LogisticRegression"}

\* feature encoders: the vocabulary-based one and the hashing one
Vectorizers == {"DictVectorizer", "FeatureHasher"}

\* label_list of a model: the class labels in sorted order
LabelList == [k \in 1..NumClasses |-> PyLabel(k - 1)]

\* probability vectors over the classes: floats that sum to 1
ProbVectors ==
    {PyList([k \in 1..NumClasses |-> PyFloat(v[k])]) :
        v \in {w \in [1..NumClasses -> 0..Scale] :
                  \E f \in [0..NumClasses -> 0..Scale] :
                      /\ f[0] = 0
                      /\ f[NumClasses] = Scale
                      /\ \A k \in 1..NumClasses : f[k] = f[k - 1] + w[k]}}

\* raw regression outputs
RegressionValues == {PyFloat(v) : v \in 0..Scale}

\* raw class indices: a bare index, or a one-element container holding the
\* index as an int or as a float
ClassIndexValues ==
    {PyInt(k) : k \in 0..(NumClasses - 1)}
        \cup {PyList(<<PyInt(k)>>) : k \in 0..(NumClasses - 1)}
        \cup {PyList(<<PyFloat(k * Scale)>>) : k \in 0..(NumClasses - 1)}

\* what Learner.predict(...).tolist() holds per example, by the model's mode
RawPredictions(probability, model_type) ==
    IF probability THEN ProbVectors
    ELSE IF model_type \in RegressorMixin THEN RegressionValues
    ELSE ClassIndexValues

\* the learners whose raw predictions are known for the examples 1..n
Learners(n) ==
    UNION {UNION {[probability : {pr}, model_type : {mt}, feat_vectorizer : Vectorizers,
                   label_list : {LabelList},
                   raw : [1..n -> RawPredictions(pr, mt)]] :
                     mt \in ModelTypes} : pr \in BOOLEAN}

\* values of --threshold: not given, or a float (0.0 included)
Thresholds == {PyNone} \cup {PyFloat(v) : v \in 0..Scale}

\* values of --positive_class that index a probability vector
PositiveClasses == 0..(NumClasses - 1)

----------------------------------------------------------------------------
(* Predictor.predict, lines 53-80. *)

\* line 65: isinstance(self._learner.feat_vectorizer, FeatureHasher)
UseFeatureHashing(self) == self.learner.feat_vectorizer = "FeatureHasher"

\* line 68: self._learner.predict(data, feature_hasher=...).tolist()
LearnerPredict(self, fs) == [i \in 1..Len(fs) |-> self.learner.raw[fs[i]]]

\* line 71: self.threshold is None
ThresholdIsNone(self) == self.threshold.type = "NoneType"

\* a slip of line 74: > for >=
MeetsThreshold_Strict(p, threshold) == p.val > threshold.val

\* line 74: pred[self._pos_index] >= self.threshold
MeetsThreshold(p, threshold) == p.val >= threshold.val

\* a slip of line 72: the default class index 1 for self._pos_index
ProbabilityOutput_DefaultClass(self, preds) ==
    [i \in 1..Len(preds) |-> GetItem(preds[i].items, 1)]

\* line 72: [pred[self._pos_index] for pred in preds]
ProbabilityOutput(self, preds) ==
    [i \in 1..Len(preds) |-> GetItem(preds[i].items, self.pos_index)]

\* a slip of lines 74-75: the test as the comprehension's filter
\* ([1 for pred in preds if pred[self._pos_index] >= self.threshold])
ThresholdOutput_Filter(self, preds) ==
    LET kept == SelectSeq(preds, LAMBDA pred :
                    MeetsThreshold(GetItem(pred.items, self.pos_index), self.threshold))
    IN  [i \in 1..Len(kept) |-> PyInt(1)]

\* lines 74-75: [int(pred[self._pos_index] >= self.threshold) for pred in preds]
ThresholdOutput(self, preds) ==
    [i \in 1..Len(preds) |->
        IntOfBool(MeetsThreshold(GetItem(preds[i].items, self.pos_index), self.threshold))]

\* a slip of line 77: the threshold applied to regression output too
RegressionOutput_Thresholded(self, preds) ==
    IF ThresholdIsNone(self) THEN preds
    ELSE [i \in 1..Len(preds) |-> IntOfBool(MeetsThreshold(preds[i], self.threshold))]

\* line 77: return preds
RegressionOutput(self, preds) == preds

\* a slip of lines 79-80: the index taken 1-based (label_list[k - 1], and
\* Python's label_list[-1] is the last label)
LabelIndex_OneBased(pred) ==
    LET k == IF pred.type = "int" THEN pred.val
             ELSE IntOfNumber(GetItem(pred.items, 0)).val
    IN  (k + NumClasses - 1) % NumClasses

\* lines 79-80: pred if isinstance(pred, int) else int(pred[0])
LabelIndex(pred) ==
    IF pred.type = "int" THEN pred.val ELSE IntOfNumber(GetItem(pred.items, 0)).val

\* lines 79-80: [self._learner.label_list[...] for pred in preds]
LabelOutput(self, preds) ==
    [i \in 1..Len(preds) |-> GetItem(self.learner.label_list, LabelIndex(preds[i]))]

\* a slip of lines 70-80: the regression test ahead of the probability test
PredictBranches_RegressionFirst(self, preds) ==
    IF self.learner.model_type \in RegressorMixin
    THEN RegressionOutput(self, preds)
    ELSE IF self.learner.probability
         THEN IF ThresholdIsNone(self)
              THEN ProbabilityOutput(self, preds)
              ELSE ThresholdOutput(self, preds)
         ELSE LabelOutput(self, preds)

\* lines 70-80: the branches of predict over the raw predictions
PredictBranches(self, preds) ==
    IF self.learner.probability
    THEN IF ThresholdIsNone(self)
         THEN ProbabilityOutput(self, preds)
         ELSE ThresholdOutput(self, preds)
    ELSE IF self.learner.model_type \in RegressorMixin
         THEN RegressionOutput(self, preds)
         ELSE LabelOutput(self, preds)

\* lines 53-80: Predictor.predict(data)
Predictor_predict(self, fs) == PredictBranches(self, LearnerPredict(self, fs))

----------------------------------------------------------------------------
(* The command line and the files it names. *)

\* a path, split as os.path.splitext splits it
Path(root, ext) == [root |-> root, ext |-> ext]

\* suffixes of the input files on the command line
Suffixes == {".csv", ".TSV", ".xyz", ".txt"}
InputPaths == {Path("feats", e) : e \in Suffixes}

\* model files on the command line: two that hold a model, one that does not
ModelPaths == {Path("classifier", ".model"), Path("regressor", ".model"),
               Path("missing", ".model")}

\* a model stored in a file; the raw predictions are those of the rows of a file
SavedLearner(pr, mt) ==
    [probability |-> pr, model_type |-> mt, feat_vectorizer |-> "DictVectorizer",
     label_list |-> LabelList,
     raw |-> [i \in 1..MaxExamples |-> CHOOSE r \in RawPredictions(pr, mt) : TRUE]]

\* line 49: Learner.from_file(model_path): the model, or a failure to load
LearnerFromFile(model_path) ==
    CASE model_path.root = "classifier" ->
             [loaded |-> TRUE, learner |-> SavedLearner(TRUE, "LogisticRegression")]
      [] model_path.root = "regressor" ->
             [loaded |-> TRUE, learner |-> SavedLearner(FALSE, "LinearRegression")]
      [] OTHER ->
             [loaded |-> FALSE, learner |-> SavedLearner(FALSE, "LogisticRegression")]

\* the text of an option's value: an integer literal, a float literal (num
\* counts units of 1/Scale), or a word that is no number
IntLiteral(n) == [kind |-> "int", num |-> n]
FloatLiteral(v) == [kind |-> "float", num |-> v]
Word == [kind |-> "word", num |-> 0]
ValueTexts == {IntLiteral(0), FloatLiteral(1), Word}

\* lines 105-129: the optional arguments as they appear on the command line
Option(flag, text) == [flag |-> flag, text |-> text]
Options ==
    {Option("--version", Word), Option("-q", Word), Option("-l", Word)}
        \cup {Option("-p", t) : t \in ValueTexts}
        \cup {Option("-t", t) : t \in ValueTexts}

\* sequences over S of length at most n
SeqsUpTo(S, n) == UNION {[1..k -> S] : k \in 0..n}

\* the command lines: the optional arguments in their order, and the positional
\* ones in theirs (the model file first, the input files after it)
Argvs ==
    {[opts |-> o, positional |-> p] :
        o \in SeqsUpTo(Options, MaxOpts),
        p \in {<<>>} \cup {<<m>> \o f : m \in ModelPaths, f \in SeqsUpTo(InputPaths, MaxFiles)}}

\* lines 97-127: the Namespace before any argument is consumed (the defaults)
DefaultArgs ==
    [parsed |-> FALSE, model_file |-> Path("", ""), input_file |-> <<>>,
     label_col |-> "y", positive_class |-> 1, quiet |-> FALSE, threshold |-> PyNone]

\* line 118: type=int applied to the text of a value
ParseInt(text) == [ok |-> text.kind = "int", value |-> text.num]

\* line 127: type=float applied to the text of a value
ParseFloat(text) ==
    [ok |-> text.kind \in {"int", "float"},
     value |-> PyFloat(IF text.kind = "int" THEN text.num * Scale ELSE text.num)]

\* lines 105-129, a slip: --version stored as a flag instead of action='version'
TakeAction_VersionStored(o, ns) ==
    CASE o.flag = "--version" -> [outcome |-> "ok", ns |-> ns]
      [] o.flag = "-q" -> [outcome |-> "ok", ns |-> [ns EXCEPT !.quiet = TRUE]]
      [] o.flag = "-l" -> [outcome |-> "ok", ns |-> [ns EXCEPT !.label_col = "label"]]
      [] o.flag = "-p" ->
             IF ParseInt(o.text).ok
             THEN [outcome |-> "ok",
                   ns |-> [ns EXCEPT !.positive_class = ParseInt(o.text).value]]
             ELSE [outcome |-> "error", ns |-> ns]
      [] o.flag = "-t" ->
             IF ParseFloat(o.text).ok
             THEN [outcome |-> "ok",
                   ns |-> [ns EXCEPT !.threshold = ParseFloat(o.text).value]]
             ELSE [outcome |-> "error", ns |-> ns]

\* lines 105-129: what the parser does on meeting one optional argument: the
\* version action prints and exits, a value its type rejects is a usage error,
\* anything else is stored in the Namespace
TakeAction(o, ns) ==
    CASE o.flag = "--version" -> [outcome |-> "version", ns |-> ns]
      [] o.flag = "-q" -> [outcome |-> "ok", ns |-> [ns EXCEPT !.quiet = TRUE]]
      [] o.flag = "-l" -> [outcome |-> "ok", ns |-> [ns EXCEPT !.label_col = "label"]]
      [] o.flag = "-p" ->
             IF ParseInt(o.text).ok
             THEN [outcome |-> "ok",
                   ns |-> [ns EXCEPT !.positive_class = ParseInt(o.text).value]]
             ELSE [outcome |-> "error", ns |-> ns]
      [] o.flag = "-t" ->
             IF ParseFloat(o.text).ok
             THEN [outcome |-> "ok",
                   ns |-> [ns EXCEPT !.threshold = ParseFloat(o.text).value]]
             ELSE [outcome |-> "error", ns |-> ns]

\* line 130: the optional arguments are consumed in command-line order, and
\* the first that exits ends the parse
RECURSIVE ConsumeOptionals(_, _)
ConsumeOptionals(opts, ns) ==
    IF opts = <<>> THEN [outcome |-> "ok", ns |-> ns]
    ELSE LET taken == TakeAction(Head(opts), ns)
         IN  IF taken.outcome = "ok" THEN ConsumeOptionals(Tail(opts), taken.ns)
             ELSE taken

\* lines 97-104, 130: the positional arguments are checked once every argument
\* is consumed: model_file and at least one input_file are required
ParseResult(av) ==
    LET consumed == ConsumeOptionals(av.opts, DefaultArgs)
    IN  IF consumed.outcome /= "ok" THEN consumed
        ELSE IF Len(av.positional) < 2 THEN [outcome |-> "error", ns |-> consumed.ns]
        ELSE [outcome |-> "ok",
              ns |-> [consumed.ns EXCEPT !.parsed = TRUE,
                                         !.model_file = Head(av.positional),
                                         !.input_file = Tail(av.positional)]]

\* line 129: the line the version action prints
VersionLine == [kind |-> "version", value |-> PyNone]

\* line 159: the line print(pred) prints
PredictionLine(pred) == [kind |-> "prediction", value |-> pred]

\* line 21: EXT_TO_READER, the suffixes lines 149-150 list and their readers
EXT_TO_READER ==
    [e \in {".arff", ".csv", ".jsonlines", ".libsvm", ".megam", ".ndj", ".tsv"} |->
        CASE e = ".arff" -> "ARFFReader"
          [] e = ".csv" -> "CSVReader"
          [] e = ".jsonlines" -> "NDJReader"
          [] e = ".libsvm" -> "LibSVMReader"
          [] e = ".megam" -> "MegaMReader"
          [] e = ".ndj" -> "NDJReader"
          [] e = ".tsv" -> "TSVReader"]

\* line 147: str.lower() of a suffix
Lower(e) == IF e = ".TSV" THEN ".tsv" ELSE e

\* an argument of os.path.splitext: one path (a str), or a list of paths
PathStr(p) == [type |-> "str", items |-> <<p>>]
PathList(ps) == [type |-> "list", items |-> ps]

\* line 147: os.path.splitext(p): (root, ext) of a str, TypeError of a list
Splitext(p) ==
    IF p.type = "str"
    THEN [raises |-> FALSE, root |-> p.items[1].root, ext |-> p.items[1].ext]
    ELSE [raises |-> TRUE, root |-> "", ext |-> ""]

\* lines 155-157: the reader instantiated on a path, and its read(): the rows
\* of the file as a FeatureSet
ReaderRead(reader, path, quiet, label_col) == [i \in 1..MaxExamples |-> i]

----------------------------------------------------------------------------
(* main(argv), lines 83-159. *)

\* no Predictor yet
NoPredictor ==
    [learner |-> SavedLearner(FALSE, "LogisticRegression"), pos_index |-> 1,
     threshold |-> PyNone, constructed |-> FALSE]

Init ==
    /\ pc = "parse"
    /\ argv \in Argvs
    /\ args = DefaultArgs
    /\ predictor = NoPredictor
    /\ idx = 0
    /\ stdout = <<>>
    /\ log = <<>>
    /\ exc = "none"
    /\ loadCalls = 0
    /\ filesRead = <<>>
    /\ splitextArg = <<>>
    /\ data = <<>>
    /\ hasherArg = FALSE
    /\ result = <<>>

\* lines 92-130: parser.parse_args(argv)
ParseArgs ==
    /\ pc = "parse"
    /\ LET parsed == ParseResult(argv)
       IN  CASE parsed.outcome = "version" ->
                    /\ stdout' = Append(stdout, VersionLine)
                    /\ exc' = "SystemExit(0)"
                    /\ pc' = "exited"
                    /\ args' = args
             [] parsed.outcome = "error" ->
                    /\ stdout' = stdout
                    /\ exc' = "SystemExit(2)"
                    /\ pc' = "exited"
                    /\ args' = args
             [] OTHER ->
                    /\ stdout' = stdout
                    /\ exc' = exc
                    /\ pc' = "construct"
                    /\ args' = parsed.ns
    /\ UNCHANGED <<argv, predictor, idx, log, loadCalls, filesRead, splitextArg,
                   data, hasherArg, result>>

\* a slip of lines 139-141: a model that fails to load is passed over and the
\* loop is entered
Predictor_init_Swallowed ==
    /\ pc = "construct"
    /\ loadCalls' = loadCalls + 1
    /\ LET from_file == LearnerFromFile(args.model_file)
       IN  predictor' = [learner |-> from_file.learner,
                         pos_index |-> args.positive_class,
                         threshold |-> args.threshold,
                         constructed |-> from_file.loaded]
    /\ pc' = "loop"
    /\ idx' = 1
    /\ UNCHANGED <<argv, args, stdout, log, exc, filesRead, splitextArg, data,
                   hasherArg, result>>

\* lines 139-141 and 32-51: Predictor(args.model_file, positive_class=...,
\* threshold=...); Learner.from_file raises when the file holds no model
Predictor_init ==
    /\ pc = "construct"
    /\ loadCalls' = loadCalls + 1
    /\ LET from_file == LearnerFromFile(args.model_file)
       IN  IF from_file.loaded
           THEN /\ predictor' = [learner |-> from_file.learner,
                                 pos_index |-> args.positive_class,
                                 threshold |-> args.threshold,
                                 constructed |-> TRUE]
                /\ pc' = "loop"
                /\ idx' = 1
                /\ exc' = exc
           ELSE /\ predictor' = predictor
                /\ pc' = "raised"
                /\ idx' = idx
                /\ exc' = "LoadError"
    /\ UNCHANGED <<argv, args, stdout, log, filesRead, splitextArg, data,
                   hasherArg, result>>

\* lines 144-159: one pass of the for loop, on args.input_file[idx]
MainLoop ==
    /\ pc = "loop"
    /\ idx <= Len(args.input_file)
    /\ LET input_file == args.input_file[idx]
           \* line 147 hands splitext args.input_file, the whole list
           split == Splitext(PathList(args.input_file))
           input_extension == Lower(split.ext)
           next_pc == IF idx = Len(args.input_file) THEN "done" ELSE "loop"
           next_idx == IF idx = Len(args.input_file) THEN idx ELSE idx + 1
       IN  /\ splitextArg' = Append(splitextArg, PathList(args.input_file))
           /\ IF split.raises
              THEN /\ pc' = "raised"
                   /\ exc' = "TypeError"
                   /\ UNCHANGED <<idx, stdout, log, filesRead, data, hasherArg, result>>
              ELSE IF input_extension \notin DOMAIN EXT_TO_READER
              THEN \* lines 149-152: logger.error(... Skipping file input_file); continue
                   /\ log' = Append(log, [level |-> "ERROR", file |-> input_file])
                   /\ pc' = next_pc
                   /\ idx' = next_idx
                   /\ UNCHANGED <<exc, stdout, filesRead, data, hasherArg, result>>
              ELSE IF "infile" \notin DOMAIN args
              THEN \* line 155: the Namespace has no attribute infile
                   /\ pc' = "raised"
                   /\ exc' = "AttributeError"
                   /\ UNCHANGED <<idx, stdout, log, filesRead, data, hasherArg, result>>
              ELSE \* lines 155-159: read args.infile, predict, print each prediction
                   LET feature_set == ReaderRead(EXT_TO_READER[input_extension],
                                                 args.infile, args.quiet, args.label_col)
                       preds == Predictor_predict(predictor, feature_set)
                   IN  /\ filesRead' = Append(filesRead, args.infile)
                       /\ data' = feature_set
                       /\ hasherArg' = UseFeatureHashing(predictor)
                       /\ result' = preds
                       /\ stdout' = stdout \o [i \in 1..Len(preds) |->
                                                  PredictionLine(preds[i])]
                       /\ pc' = next_pc
                       /\ idx' = next_idx
                       /\ UNCHANGED <<exc, log>>
    /\ UNCHANGED <<argv, args, predictor, loadCalls>>

Next == ParseArgs \/ Predictor_init \/ MainLoop

Spec == Init /\ [][Next]_vars

----------------------------------------------------------------------------
(* One call of Predictor.predict on a constructed Predictor. *)

\* the FeatureSets of n examples: the examples 1..n in order
FeatureSetOf(n) == [i \in 1..n |-> i]

\* a Predictor whose model loaded
Predictors(n) ==
    [learner : Learners(n), pos_index : PositiveClasses, threshold : Thresholds,
     constructed : {TRUE}]

\* the state of main's variables while predict is exercised on its own
MainIdle ==
    /\ argv = [opts |-> <<>>, positional |-> <<>>]
    /\ args = DefaultArgs
    /\ idx = 0
    /\ stdout = <<>>
    /\ log = <<>>
    /\ exc = "none"
    /\ loadCalls = 0
    /\ filesRead = <<>>
    /\ splitextArg = <<>>

PredictInit ==
    /\ pc = "call"
    /\ \E n \in 0..MaxExamples :
        /\ data = FeatureSetOf(n)
        /\ predictor \in Predictors(n)
    /\ hasherArg = FALSE
    /\ result = <<>>
    /\ MainIdle

\* predictor.predict(data) runs and returns
PredictCall ==
    /\ pc = "call"
    /\ hasherArg' = UseFeatureHashing(predictor)
    /\ result' = Predictor_predict(predictor, data)
    /\ pc' = "returned"
    /\ UNCHANGED <<argv, args, predictor, idx, stdout, log, exc, loadCalls,
                   filesRead, splitextArg, data>>

PredictNext == PredictCall

PredictSpec == PredictInit /\ [][PredictNext]_vars

----------------------------------------------------------------------------
(* Properties of Predictor.predict, checked under PredictSpec. *)

\* the model's raw prediction for the i-th example of the FeatureSet
RawOf(i) == predictor.learner.raw[data[i]]

\* the model's probability for the configured positive class, for example i
PositiveProbability(i) == RawOf(i).items[predictor.pos_index + 1]

\* the class index a raw classification output stands for, bare or wrapped
HeldIndex(r) ==
    CHOOSE k \in 0..(NumClasses - 1) :
        \/ r = PyInt(k)
        \/ r = PyList(<<PyInt(k)>>)
        \/ r = PyList(<<PyFloat(k * Scale)>>)

IsProbabilityMode == predictor.learner.probability
IsRegressionMode ==
    ~predictor.learner.probability /\ predictor.learner.model_type \in RegressorMixin
IsClassificationMode ==
    ~predictor.learner.probability /\ predictor.learner.model_type \notin RegressorMixin

\* C3: predict returns exactly one value per example of the FeatureSet, and the
\* value at position i is the one predict yields for example i on its own: the
\* output is the per-example outputs in FeatureSet order.
C3_OnePredictionPerExample ==
    pc = "returned" =>
        /\ Len(result) = Len(data)
        /\ \A i \in 1..Len(data) :
               <<result[i]>> = Predictor_predict(predictor, <<data[i]>>)

\* a call on two examples with different raw predictions returned different values
C3_Witness ==
    /\ pc = "returned"
    /\ Len(data) >= 2
    /\ RawOf(1) /= RawOf(2)
    /\ result[1] /= result[2]

\* C4: with a probability model and a threshold T configured (0.0 included),
\* every output is the int 1 when the positive-class probability is >= T and the
\* int 0 otherwise; it is never the probability itself.
C4_ThresholdIndicator ==
    (pc = "returned" /\ IsProbabilityMode /\ predictor.threshold /= PyNone) =>
        /\ Len(result) = Len(data)
        /\ \A i \in 1..Len(data) :
               /\ result[i].type = "int"
               /\ PositiveProbability(i).val >= predictor.threshold.val
                      => result[i] = PyInt(1)
               /\ PositiveProbability(i).val < predictor.threshold.val
                      => result[i] = PyInt(0)

\* a probability exactly equal to a threshold yielded 1, and a lower one 0
C4_Witness ==
    /\ pc = "returned"
    /\ IsProbabilityMode
    /\ predictor.threshold /= PyNone
    /\ Len(data) >= 2
    /\ PositiveProbability(1) = predictor.threshold
    /\ result[1] = PyInt(1)
    /\ PositiveProbability(2).val < predictor.threshold.val
    /\ result[2] = PyInt(0)

\* C5: with a probability model and no threshold, the output at position i is
\* the entry of example i's probability vector at the positive-class index.
C5_RawProbability ==
    (pc = "returned" /\ IsProbabilityMode /\ predictor.threshold = PyNone) =>
        /\ Len(result) = Len(data)
        /\ \A i \in 1..Len(data) : result[i] = PositiveProbability(i)

\* class 0 was asked for and its probability, not class 1's, was returned
C5_Witness ==
    /\ pc = "returned"
    /\ IsProbabilityMode
    /\ predictor.threshold = PyNone
    /\ predictor.pos_index = 0
    /\ Len(data) >= 1
    /\ RawOf(1).items[1] /= RawOf(1).items[2]
    /\ result[1] = RawOf(1).items[1]

\* C6: with a classifier that yields no probabilities, the output at position i
\* is label_list[k] for the index k the raw prediction stands for, whether k
\* arrives bare or inside a one-element container.
C6_LabelLookup ==
    (pc = "returned" /\ IsClassificationMode) =>
        /\ Len(result) = Len(data)
        /\ \A i \in 1..Len(data) :
               result[i] = predictor.learner.label_list[HeldIndex(RawOf(i)) + 1]

\* a bare index 1 and a container holding 1 both came out as the label of class 1
C6_Witness ==
    /\ pc = "returned"
    /\ IsClassificationMode
    /\ Len(data) >= 2
    /\ RawOf(1) = PyInt(1)
    /\ RawOf(2).type = "list"
    /\ HeldIndex(RawOf(2)) = 1
    /\ result[1] = PyLabel(1)
    /\ result[2] = PyLabel(1)

\* C7: with a regression model that yields no probabilities, the output is the
\* raw predictions, whatever threshold and positive-class index are configured.
C7_RegressionUnchanged ==
    (pc = "returned" /\ IsRegressionMode) =>
        /\ Len(result) = Len(data)
        /\ \A i \in 1..Len(data) : result[i] = RawOf(i)

\* a regression value below a configured threshold came out as it was
C7_Witness ==
    /\ pc = "returned"
    /\ IsRegressionMode
    /\ predictor.threshold /= PyNone
    /\ Len(data) >= 1
    /\ RawOf(1).val < predictor.threshold.val
    /\ result[1] = RawOf(1)

\* C10: the probability test comes first, the regression test second, the label
\* lookup last: a probability-producing model of a regression family gets the
\* probability branch's output, labels come out only of a model that is neither,
\* and without probabilities the threshold and the class index change nothing.
C10_BranchPrecedence ==
    pc = "returned" =>
        /\ Len(result) = Len(data)
        /\ IsProbabilityMode =>
               \A i \in 1..Len(data) :
                   /\ result[i] /= RawOf(i)
                   /\ predictor.threshold = PyNone => result[i] = PositiveProbability(i)
                   /\ predictor.threshold /= PyNone => result[i] \in {PyInt(0), PyInt(1)}
        /\ (\E i \in 1..Len(data) : result[i].type = "str") => IsClassificationMode
        /\ IsRegressionMode => \A i \in 1..Len(data) : result[i].type = "float"
        /\ IsClassificationMode => \A i \in 1..Len(data) : result[i].type = "str"
        /\ ~IsProbabilityMode =>
               \A t \in Thresholds, p \in PositiveClasses :
                   Predictor_predict([predictor EXCEPT !.threshold = t, !.pos_index = p],
                                     data) = result

\* a probability-producing model of a regression family was given a threshold
\* and an indicator came out
C10_Witness ==
    /\ pc = "returned"
    /\ predictor.learner.probability
    /\ predictor.learner.model_type \in RegressorMixin
    /\ predictor.threshold /= PyNone
    /\ Len(data) >= 1
    /\ result[1] \in {PyInt(0), PyInt(1)}

----------------------------------------------------------------------------
(* Properties of main, checked under Spec. *)

\* the run is over: it exited, raised, or fell off the end of the loop
Ended == pc \in {"exited", "raised", "done"}

\* the input file's suffix is a key of EXT_TO_READER
Recognized(path) == Lower(path.ext) \in DOMAIN EXT_TO_READER

\* the error records of the files among fs with no reader, one each, in order
RECURSIVE SkipErrors(_)
SkipErrors(fs) ==
    IF fs = <<>> THEN <<>>
    ELSE (IF Recognized(Head(fs)) THEN <<>>
          ELSE <<[level |-> "ERROR", file |-> Head(fs)]>>) \o SkipErrors(Tail(fs))

\* the lines of the predictions of one file
LinesOf(path) ==
    LET preds == Predictor_predict(predictor,
                     ReaderRead(EXT_TO_READER[Lower(path.ext)], path,
                                args.quiet, args.label_col))
    IN  [i \in 1..Len(preds) |-> PredictionLine(preds[i])]

\* the lines of the files among fs that have a reader, file after file
RECURSIVE PredictionLines(_)
PredictionLines(fs) ==
    IF fs = <<>> THEN <<>>
    ELSE (IF Recognized(Head(fs)) THEN LinesOf(Head(fs)) ELSE <<>>)
             \o PredictionLines(Tail(fs))

\* C1: once the model is loaded, the run gets through every input file: each
\* file with an unrecognized suffix is logged once, by name, and skipped, and
\* the predictions of the recognized files, and nothing else, are printed.
C1_UnrecognizedSkipped ==
    (Ended /\ predictor.constructed) =>
        /\ pc = "done"
        /\ exc = "none"
        /\ log = SkipErrors(args.input_file)
        /\ stdout = PredictionLines(args.input_file)

\* C2: each pass of the loop dispatches on the suffix of its own file, reads
\* that file with the reader of that suffix, and the files are handled in
\* command-line order.
C2_DispatchOnCurrentFile ==
    /\ \A k \in 1..Len(splitextArg) : splitextArg[k] = PathStr(args.input_file[k])
    /\ (Ended /\ predictor.constructed) =>
           /\ filesRead = SelectSeq(args.input_file, Recognized)
           /\ stdout = PredictionLines(args.input_file)

HasVersion == \E k \in 1..Len(argv.opts) : argv.opts[k].flag = "--version"

\* an option ahead of the first --version holds a value its type rejects
RejectedBeforeVersion ==
    \E j \in 1..Len(argv.opts) :
        /\ \A k \in 1..j : argv.opts[k].flag /= "--version"
        /\ \/ argv.opts[j].flag = "-p" /\ argv.opts[j].text.kind /= "int"
           \/ argv.opts[j].flag = "-t" /\ argv.opts[j].text.kind = "word"

====
